---- MODULE Spec2Model ----
(***************************************************************************)
(* Model of neopilot-ai/extensions: the registry / manifest / gitmodules   *)
(* validators (src/src/lib/validation.ts) and the packaging CLI with its   *)
(* selection engine (src/src/cli.ts).                                      *)
(*                                                                         *)
(* Strings are sequences of one-character strings, so that the regular     *)
(* expressions, trim, split and startsWith of the code are computed on the *)
(* characters.  JavaScript values are records tagged by their typeof.      *)
(***************************************************************************)
EXTENDS Integers, Sequences, FiniteSets, TLC

VARIABLES
    extensionsToml,   \* validateExtensionsToml's argument / main's parsed extensions.toml
    tomlResult,       \* outcome of validateExtensionsToml: pending, returned or threw
    manifest,         \* validateManifest's argument
    manifestResult,   \* outcome of validateManifest: pending or {isValid, errors}
    gitmodules,       \* validateGitmodules' argument: the raw .gitmodules content
    gmPc,             \* position in validateGitmodules: idle, start, scan, flush, validate, returned
    lines,            \* the trimmed non-empty lines
    i,                \* the scan loop's index (0-based, as in the code)
    currentSubmodule, \* the open section, or null
    submodules,       \* the closed sections
    errors,           \* the errors pushed so far
    pc,               \* position in main
    env,              \* process.env: SHOULD_PUBLISH, and whether the S3 variables are set
    arg,              \* process.argv[2]
    selectedExtensionId,
    mainExtensionsToml,         \* origin/main's extensions.toml, as changedExtensionIds parses it
    bucket,                     \* the keys of the objects in the blob store
    publishedExtensionVersions, \* the Map built by getPublishedVersionsByExtensionId
    extensionIds,     \* the selection main iterates over
    loopIndex,        \* how many ids of extensionIds the loop has gone through
    packaged,         \* the ids packageExtension was invoked for, in order
    sortedFiles,      \* the files the sort step has gone through
    exitCode          \* process.exit's code, or -1 while running

regVars == <<extensionsToml, tomlResult>>

manVars == <<manifest, manifestResult>>

gmVars == <<gitmodules, gmPc, lines, i, currentSubmodule, submodules, errors>>

cliVars ==
    <<pc, env, arg, selectedExtensionId, mainExtensionsToml, bucket,
      publishedExtensionVersions, extensionIds, loopIndex, packaged, sortedFiles, exitCode>>

vars == <<regVars, manVars, gmVars, cliVars>>

(***************************************************************************)
(* Bounds of the model.                                                    *)
(***************************************************************************)
MaxIds == 2

MaxLines == 4

(***************************************************************************)
(* Characters.                                                             *)
(***************************************************************************)
Lower ==
    {"a","b","c","d","e","f","g","h","i","j","k","l","m",
     "n","o","p","q","r","s","t","u","v","w","x","y","z"}

Upper ==
    {"A","B","C","D","E","F","G","H","I","J","K","L","M",
     "N","O","P","Q","R","S","T","U","V","W","X","Y","Z"}

Digit ==
    {"0","1","2","3","4","5","6","7","8","9"}

(***************************************************************************)
(* JavaScript values.                                                      *)
(***************************************************************************)
Undefined == [t |-> "undefined"]

Str(s) == [t |-> "string", s |-> s]

Num(n) == [t |-> "number", n |-> n]

Prop(k, v) == [k |-> k, v |-> v]

\* An object: its own properties in iteration order.
Obj(props) == [t |-> "object", props |-> props]

\* An array (typeof gives "object").
Arr(items) == [t |-> "array", items |-> items]

TypeOf(v) ==
    IF v.t = "array" THEN "object" ELSE v.t

\* ToBoolean: undefined, null, "" and 0 are falsy.
Truthy(v) ==
    CASE v.t = "undefined" -> FALSE
      [] v.t = "null" -> FALSE
      [] v.t = "string" -> Len(v.s) > 0
      [] v.t = "number" -> v.n # 0
      [] OTHER -> TRUE

ObjectKeys(o) ==
    IF o.t = "object" THEN [j \in 1..Len(o.props) |-> o.props[j].k] ELSE <<>>

HasKey(o, k) ==
    o.t = "object" /\ \E j \in 1..Len(o.props) : o.props[j].k = k

\* Property read o[k]: undefined when the property is absent.
Get(o, k) ==
    IF HasKey(o, k)
    THEN o.props[CHOOSE j \in 1..Len(o.props) : o.props[j].k = k].v
    ELSE Undefined

Null == [t |-> "null"]

Returned == [state |-> "returned"]

Pending == [state |-> "pending"]

(***************************************************************************)
(* The components a specification leaves alone.                            *)
(***************************************************************************)
RegistryIdle ==
    /\ extensionsToml = Undefined
    /\ tomlResult = Pending

ManifestIdle ==
    /\ manifest = Undefined
    /\ manifestResult = Pending

GitmodulesIdle ==
    /\ gitmodules = Undefined
    /\ gmPc = "idle"
    /\ lines = <<>>
    /\ i = 0
    /\ currentSubmodule = Null
    /\ submodules = <<>>
    /\ errors = <<>>

CliIdle ==
    /\ pc = "idle"
    /\ env = [SHOULD_PUBLISH |-> "unset", S3_KEYS |-> FALSE, S3_BUCKET |-> FALSE]
    /\ arg = Undefined
    /\ selectedExtensionId = Undefined
    /\ mainExtensionsToml = Undefined
    /\ bucket = {}
    /\ publishedExtensionVersions = Pending
    /\ extensionIds = <<>>
    /\ loopIndex = 0
    /\ packaged = <<>>
    /\ sortedFiles = {}
    /\ exitCode = -1

(***************************************************************************)
(* validation.ts: EXTENSION_ID_PATTERN = /^[a-z0-9\-]+$/                   *)
(***************************************************************************)
\* The pattern with the upper-case letters let in, as /^[a-zA-Z0-9\-]+$/ would.
EXTENSION_ID_PATTERN_AllowsUpper(s) ==
    /\ Len(s) > 0
    /\ \A j \in 1..Len(s) : s[j] \in Lower \cup Upper \cup Digit \cup {"-"}

EXTENSION_ID_PATTERN(s) ==
    /\ Len(s) > 0
    /\ \A j \in 1..Len(s) : s[j] \in Lower \cup Digit \cup {"-"}

KVersion == <<"v","e","r","s","i","o","n">>

KSource == <<"s","o","u","r","c","e">>

KExtensions == <<"e","x","t","e","n","s","i","o","n","s">>

\* throw new Error(`${text}${id}...`): the message template and the id put in it.
Threw(text, id) == [state |-> "threw", text |-> text, id |-> id]

\* The first loop of validateExtensionsToml: the first key of Object.keys
\* that fails the pattern, 0 when every key passes.
FirstBadKey(keys) ==
    IF \E j \in 1..Len(keys) : ~EXTENSION_ID_PATTERN(keys[j])
    THEN CHOOSE j \in 1..Len(keys) :
            /\ ~EXTENSION_ID_PATTERN(keys[j])
            /\ \A h \in 1..(j - 1) : EXTENSION_ID_PATTERN(keys[h])
    ELSE 0

\* The body of the for-in loop over extensions.extensions for one id:
\* the error it throws, or Returned when the entry passes.
CheckExtension(extensionId, extension) ==
    IF ~EXTENSION_ID_PATTERN(extensionId)
    THEN Threw("Invalid extension ID: ", extensionId)
    ELSE IF ~Truthy(extension) \/ TypeOf(extension) # "object"
    THEN Threw("Extension must be an object: ", extensionId)
    ELSE IF ~Truthy(Get(extension, KVersion)) \/ TypeOf(Get(extension, KVersion)) # "string"
    THEN Threw("Extension missing or invalid version: ", extensionId)
    ELSE IF ~Truthy(Get(extension, KSource)) \/ TypeOf(Get(extension, KSource)) # "string"
    THEN Threw("Extension missing or invalid source: ", extensionId)
    ELSE Returned

\* The for-in loop: the outcome of the first entry that throws.
CheckExtensions(table) ==
    LET keys == ObjectKeys(table)
        bad == {j \in 1..Len(keys) : CheckExtension(keys[j], Get(table, keys[j])) # Returned}
    IN  IF bad = {}
        THEN Returned
        ELSE LET j == CHOOSE j \in bad : \A h \in bad : j <= h
             IN  CheckExtension(keys[j], Get(table, keys[j]))

validateExtensionsToml(toml) ==
    IF ~Truthy(toml) \/ TypeOf(toml) # "object"
    THEN Threw("extensions.toml must be an object", <<>>)
    ELSE IF FirstBadKey(ObjectKeys(toml)) # 0
    THEN Threw("Extension IDs must only consist of lowercase letters, numbers, and hyphens ('-'): ",
               ObjectKeys(toml)[FirstBadKey(ObjectKeys(toml))])
    ELSE IF ~Truthy(Get(toml, KExtensions)) \/ TypeOf(Get(toml, KExtensions)) # "object"
    THEN Threw("Missing or invalid extensions section", <<>>)
    ELSE CheckExtensions(Get(toml, KExtensions))

(***************************************************************************)
(* validation.ts: validateManifest                                         *)
(***************************************************************************)
KName == <<"n","a","m","e">>

KDescription == <<"d","e","s","c","r","i","p","t","i","o","n">>

KAuthor == <<"a","u","t","h","o","r">>

KAuthors == <<"a","u","t","h","o","r","s">>

KLicense == <<"l","i","c","e","n","s","e">>

KRepository == <<"r","e","p","o","s","i","t","o","r","y">>

KKeywords == <<"k","e","y","w","o","r","d","s">>

DigitChar(n) ==
    CASE n = 0 -> "0" [] n = 1 -> "1" [] n = 2 -> "2" [] n = 3 -> "3" [] n = 4 -> "4"
      [] n = 5 -> "5" [] n = 6 -> "6" [] n = 7 -> "7" [] n = 8 -> "8" [] n = 9 -> "9"

RECURSIVE NatToString(_)
NatToString(n) ==
    IF n < 10 THEN <<DigitChar(n)>> ELSE NatToString(n \div 10) \o <<DigitChar(n % 10)>>

RECURSIVE JoinStrings(_, _)
\* Array.prototype.join over the items' string values.
JoinStrings(items, sep) ==
    IF Len(items) = 0 THEN <<>>
    ELSE IF Len(items) = 1 THEN items[1]
    ELSE items[1] \o sep \o JoinStrings(Tail(items), sep)

\* StringOf, as RegExp.prototype.test applies it to its argument.
StringOf(v) ==
    CASE v.t = "string" -> v.s
      [] v.t = "number" -> NatToString(v.n)
      [] v.t = "array" ->
            JoinStrings([j \in 1..Len(v.items) |->
                            IF v.items[j].t = "string" THEN v.items[j].s
                            ELSE NatToString(v.items[j].n)], <<",">>)
      [] v.t = "undefined" -> <<"u","n","d","e","f","i","n","e","d">>
      [] OTHER -> <<"[","o","b","j","e","c","t"," ","O","b","j","e","c","t","]">>

\* The length of the longest run of digits of s that starts at position from.
RECURSIVE DigitRun(_, _)
DigitRun(s, from) ==
    IF from <= Len(s) /\ s[from] \in Digit THEN 1 + DigitRun(s, from + 1) ELSE 0

\* versionRegex = /^\d+\.\d+\.\d+(-[a-zA-Z0-9\-\.]+)?$/
versionRegex(s) ==
    LET a == DigitRun(s, 1)
        b == DigitRun(s, a + 2)
        c == DigitRun(s, a + b + 3)
        rest == a + b + c + 3
    IN  /\ a > 0
        /\ a + 1 <= Len(s) /\ s[a + 1] = "."
        /\ b > 0
        /\ a + b + 2 <= Len(s) /\ s[a + b + 2] = "."
        /\ c > 0
        /\ \/ rest = Len(s) + 1
           \/ /\ rest < Len(s)
              /\ s[rest] = "-"
              /\ \A j \in (rest + 1)..Len(s) :
                    s[j] \in Lower \cup Upper \cup Digit \cup {"-", "."}

RequiredFieldError(field) ==
    CASE field = KName -> "Missing or invalid required field: name"
      [] field = KVersion -> "Missing or invalid required field: version"
      [] field = KDescription -> "Missing or invalid required field: description"

\* errors.push(msg) when cond holds.
PushIf(errs, cond, msg) ==
    IF cond THEN Append(errs, msg) ELSE errs

RequiredFieldMissing(m, field) ==
    ~Truthy(Get(m, field)) \/ TypeOf(Get(m, field)) # "string"

OptionalNotString(m, field) ==
    Truthy(Get(m, field)) /\ TypeOf(Get(m, field)) # "string"

KeywordsInvalid(m) ==
    /\ Truthy(Get(m, KKeywords))
    /\ \/ Get(m, KKeywords).t # "array"
       \/ \E j \in 1..Len(Get(m, KKeywords).items) : TypeOf(Get(m, KKeywords).items[j]) # "string"

validateManifest(m) ==
    IF ~Truthy(m) \/ TypeOf(m) # "object"
    THEN [isValid |-> FALSE, errors |-> <<"Manifest must be an object">>]
    ELSE
      LET e1 == PushIf(<<>>, RequiredFieldMissing(m, KName), RequiredFieldError(KName))
          e2 == PushIf(e1, RequiredFieldMissing(m, KVersion), RequiredFieldError(KVersion))
          e3 == PushIf(e2, RequiredFieldMissing(m, KDescription), RequiredFieldError(KDescription))
          e4 == PushIf(e3, Truthy(Get(m, KName)) /\ ~EXTENSION_ID_PATTERN(StringOf(Get(m, KName))),
                       "Manifest name must contain only lowercase letters, numbers, and hyphens")
          e5 == PushIf(e4, Truthy(Get(m, KVersion)) /\ ~versionRegex(StringOf(Get(m, KVersion))),
                       "Version must follow semantic versioning format (e.g., 1.0.0 or 1.0.0-beta.1)")
          e6 == PushIf(e5, OptionalNotString(m, KAuthor), "Author must be a string")
          e7 == PushIf(e6, OptionalNotString(m, KLicense), "License must be a string")
          e8 == PushIf(e7, OptionalNotString(m, KRepository), "Repository must be a string")
          e9 == PushIf(e8, KeywordsInvalid(m), "Keywords must be an array of strings")
      IN  [isValid |-> Len(e9) = 0, errors |-> e9]

(***************************************************************************)
(* String operations of validateGitmodules.                                *)
(***************************************************************************)
Whitespace == {" ", "\t", "\r"}

StartsWith(s, prefix) ==
    Len(s) >= Len(prefix) /\ SubSeq(s, 1, Len(prefix)) = prefix

EndsWith(s, suffix) ==
    Len(s) >= Len(suffix) /\ SubSeq(s, Len(s) - Len(suffix) + 1, Len(s)) = suffix

\* String.prototype.trim
Trim(s) ==
    IF \A j \in 1..Len(s) : s[j] \in Whitespace
    THEN <<>>
    ELSE LET nonWs == {j \in 1..Len(s) : s[j] \notin Whitespace}
             first == CHOOSE j \in nonWs : \A h \in nonWs : j <= h
             last == CHOOSE j \in nonWs : \A h \in nonWs : j >= h
         IN  SubSeq(s, first, last)

\* String.prototype.split("\n")
RECURSIVE SplitLines(_)
SplitLines(text) ==
    IF \A j \in 1..Len(text) : text[j] # "\n"
    THEN <<text>>
    ELSE LET nl == CHOOSE j \in 1..Len(text) :
                        text[j] = "\n" /\ \A h \in 1..(j - 1) : text[h] # "\n"
         IN  <<SubSeq(text, 1, nl - 1)>> \o SplitLines(SubSeq(text, nl + 1, Len(text)))

\* gitmodules.split("\n").map(trim).filter(length > 0)
TrimmedNonEmptyLines(text) ==
    LET split == SplitLines(text)
    IN  SelectSeq([j \in 1..Len(split) |-> Trim(split[j])], LAMBDA l : Len(l) > 0)

NoMatch == [matched |-> FALSE]

Match(group) == [matched |-> TRUE, group |-> group]

SubmoduleHeaderPrefix == <<"[","s","u","b","m","o","d","u","l","e"," ","\"">>

SubmoduleHeaderSuffix == <<"\"","]">>

\* line.match(/^\[submodule "(.+)"\]$/)
SubmoduleMatch(line) ==
    IF /\ Len(line) >= Len(SubmoduleHeaderPrefix) + 1 + Len(SubmoduleHeaderSuffix)
       /\ StartsWith(line, SubmoduleHeaderPrefix)
       /\ EndsWith(line, SubmoduleHeaderSuffix)
    THEN Match(SubSeq(line, Len(SubmoduleHeaderPrefix) + 1, Len(line) - Len(SubmoduleHeaderSuffix)))
    ELSE NoMatch

\* The length of the longest run of whitespace of s that starts at position from.
RECURSIVE WhitespaceRun(_, _)
WhitespaceRun(s, from) ==
    IF from <= Len(s) /\ s[from] \in Whitespace THEN 1 + WhitespaceRun(s, from + 1) ELSE 0

\* line.match(/^<key>\s*=\s*(.+)$/): the group is what follows the whitespace
\* after "=", or the last whitespace character when nothing else follows.
AssignmentMatch(line, key) ==
    LET eq == Len(key) + WhitespaceRun(line, Len(key) + 1) + 1
        val == eq + 1 + WhitespaceRun(line, eq + 1)
    IN  IF /\ StartsWith(line, key)
           /\ eq <= Len(line) /\ line[eq] = "="
           /\ eq < Len(line)
        THEN Match(IF val <= Len(line) THEN SubSeq(line, val, Len(line))
                   ELSE SubSeq(line, Len(line), Len(line)))
        ELSE NoMatch

PathMatch(line) == AssignmentMatch(line, <<"p","a","t","h">>)

UrlMatch(line) == AssignmentMatch(line, <<"u","r","l">>)

\* submodule.url.match(/^(https?:\/\/|git@|ssh:\/\/)/)
UrlFormatMatch(url) ==
    \/ StartsWith(url, <<"h","t","t","p",":","/","/">>)
    \/ StartsWith(url, <<"h","t","t","p","s",":","/","/">>)
    \/ StartsWith(url, <<"g","i","t","@">>)
    \/ StartsWith(url, <<"s","s","h",":","/","/">>)

(***************************************************************************)
(* validation.ts: validateGitmodules                                       *)
(***************************************************************************)
NewSubmodule(name, lineNumber) ==
    [t |-> "submodule", name |-> name, lineNumber |-> lineNumber, path |-> Null, url |-> Null]

LineError(text, lineNumber, line) ==
    [text |-> text, lineNumber |-> lineNumber, line |-> line]

SubmoduleError(text, name) ==
    [text |-> text, name |-> name]

UrlError(text, name, url) ==
    [text |-> text, name |-> name, url |-> url]

\* One iteration of the scan loop on lines[idx + 1], idx the 0-based index:
\* the parser state {currentSubmodule, submodules, errors} after it.
ScanLine(st, line, idx) ==
    LET submoduleMatch == SubmoduleMatch(line)
        pathMatch == PathMatch(line)
        urlMatch == UrlMatch(line)
    IN  IF submoduleMatch.matched
        THEN [ currentSubmodule |-> NewSubmodule(submoduleMatch.group, idx + 1),
               submodules |-> IF st.currentSubmodule # Null
                              THEN Append(st.submodules, st.currentSubmodule)
                              ELSE st.submodules,
               errors |-> st.errors ]
        ELSE IF pathMatch.matched /\ st.currentSubmodule # Null
        THEN [st EXCEPT !.currentSubmodule.path = Str(Trim(pathMatch.group))]
        ELSE IF urlMatch.matched /\ st.currentSubmodule # Null
        THEN [st EXCEPT !.currentSubmodule.url = Str(Trim(urlMatch.group))]
        ELSE IF StartsWith(line, <<"[">>) /\ ~submoduleMatch.matched
        THEN [st EXCEPT !.errors =
                Append(@, LineError("Invalid section header at line", idx + 1, line))]
        ELSE IF /\ ~StartsWith(line, <<"#">>)
                /\ ~pathMatch.matched
                /\ ~urlMatch.matched
                /\ st.currentSubmodule # Null
        THEN [st EXCEPT !.errors =
                Append(@, LineError("Invalid property at line", idx + 1, line))]
        ELSE st

\* The end of the scan without "Add the last submodule".
FlushLast_DropsOpenSection(current, subs) ==
    subs

\* "Add the last submodule".
FlushLast(current, subs) ==
    IF current # Null THEN Append(subs, current) ELSE subs

\* The loop body without its check of the url property.
SubmoduleErrors_NoUrlCheck(submodule) ==
    (IF ~Truthy(submodule.path)
     THEN <<SubmoduleError("Submodule missing path property", submodule.name)>> ELSE <<>>)
    \o
    (IF Truthy(submodule.url) /\ ~UrlFormatMatch(submodule.url.s)
     THEN <<UrlError("Submodule has invalid URL format", submodule.name, submodule.url.s)>>
     ELSE <<>>)

\* The errors the "Validate each submodule" loop pushes for one submodule.
SubmoduleErrors(submodule) ==
    (IF ~Truthy(submodule.path)
     THEN <<SubmoduleError("Submodule missing path property", submodule.name)>> ELSE <<>>)
    \o
    (IF ~Truthy(submodule.url)
     THEN <<SubmoduleError("Submodule missing url property", submodule.name)>> ELSE <<>>)
    \o
    (IF Truthy(submodule.url) /\ ~UrlFormatMatch(submodule.url.s)
     THEN <<UrlError("Submodule has invalid URL format", submodule.name, submodule.url.s)>>
     ELSE <<>>)

RECURSIVE ValidateSubmodules(_, _)
ValidateSubmodules(subs, errs) ==
    IF Len(subs) = 0 THEN errs
    ELSE ValidateSubmodules(Tail(subs), errs \o SubmoduleErrors(Head(subs)))

GitmodulesResult(errs, subs) ==
    [isValid |-> Len(errs) = 0, errors |-> errs, submodules |-> subs]

RECURSIVE ScanFrom(_, _, _)
\* The scan loop from 0-based index idx to the end of ls.
ScanFrom(st, ls, idx) ==
    IF idx >= Len(ls) THEN st ELSE ScanFrom(ScanLine(st, ls[idx + 1], idx), ls, idx + 1)

\* The whole function, as main calls it.
validateGitmodules(g) ==
    IF TypeOf(g) # "string"
    THEN [isValid |-> FALSE, errors |-> <<LineError("Gitmodules must be a string", 0, <<>>)>>,
          submodules |-> <<>>]
    ELSE LET st == ScanFrom([currentSubmodule |-> Null, submodules |-> <<>>, errors |-> <<>>],
                            TrimmedNonEmptyLines(g.s), 0)
             subs == FlushLast(st.currentSubmodule, st.submodules)
         IN  GitmodulesResult(ValidateSubmodules(subs, st.errors), subs)

(***************************************************************************)
(* cli.ts: the selection engine.                                           *)
(***************************************************************************)
\* String.prototype.split(sep) for a one-character separator.
RECURSIVE Split(_, _)
Split(text, sep) ==
    IF \A j \in 1..Len(text) : text[j] # sep
    THEN <<text>>
    ELSE LET at == CHOOSE j \in 1..Len(text) :
                        text[j] = sep /\ \A h \in 1..(j - 1) : text[h] # sep
         IN  <<SubSeq(text, 1, at - 1)>> \o Split(SubSeq(text, at + 1, Len(text)), sep)

\* \w of a regular expression
WordChar == Lower \cup Upper \cup Digit \cup {"_"}

\* object.Key.match(/^(\w+)\/([^\/]+)\/[^\/]+$/): three non-empty segments
\* between slashes, the first of word characters.
KeyMatch(key) ==
    LET segs == Split(key, "/")
    IN  IF /\ Len(segs) = 3
           /\ \A j \in 1..3 : Len(segs[j]) > 0
           /\ \A j \in 1..Len(segs[1]) : segs[1][j] \in WordChar
        THEN [matched |-> TRUE, extensionId |-> segs[1], version |-> segs[2]]
        ELSE NoMatch

\* The Map<string, Set<string>>: a function from the ids it holds to their
\* sets of versions.  Without the S3 variables it is the empty Map.
getPublishedVersionsByExtensionId(environment, keys) ==
    IF ~environment.S3_KEYS \/ ~environment.S3_BUCKET
    THEN <<>>
    ELSE LET matches == {KeyMatch(k) : k \in {q \in keys : Len(q) > 0 /\ KeyMatch(q).matched}}
         IN  [id \in {m.extensionId : m \in matches} |->
                 {m.version : m \in {q \in matches : q.extensionId = id}}]

\* versions.has(extensionInfo.version)
SetHas(versions, v) ==
    v.t = "string" /\ v.s \in versions

\* The loop keyed by id alone: any published version hides the id.
unpublishedExtensionIds_ById(toml, published) ==
    SelectSeq(ObjectKeys(toml), LAMBDA id : id \notin DOMAIN published)

\* The loop of unpublishedExtensionIds over Object.entries(extensionsToml).
unpublishedExtensionIds(toml, published) ==
    SelectSeq(ObjectKeys(toml),
              LAMBDA id : \/ id \notin DOMAIN published
                          \/ ~SetHas(published[id], Get(Get(toml, id), KVersion)))

\* a === b, for values of two separately parsed documents (two objects are
\* never the same object).
StrictEquals(a, b) ==
    /\ a.t = b.t
    /\ CASE a.t = "undefined" -> TRUE
         [] a.t = "null" -> TRUE
         [] a.t = "string" -> a.s = b.s
         [] a.t = "number" -> a.n = b.n
         [] OTHER -> FALSE

\* The loop of changedExtensionIds: ids whose mainExtension?.version === version
\* are skipped.
changedExtensionIds(toml, mainToml) ==
    SelectSeq(ObjectKeys(toml),
              LAMBDA id : ~StrictEquals(Get(Get(mainToml, id), KVersion),
                                        Get(Get(toml, id), KVersion)))

(***************************************************************************)
(* Inputs of the registry validator: registries of at most MaxIds keys.    *)
(***************************************************************************)
IdBase16 == <<"b","a","s","e","1","6">>

IdMyX == <<"m","y","-","x">>

IdBad == <<"B","a","d">>

IdUnderscore == <<"b","_","x">>

IdDotted == <<"a",".","b">>

RegistryKeys == {IdBase16, IdMyX, IdBad, IdUnderscore, IdDotted, KExtensions}

V100 == <<"1",".","0",".","0">>

SrcS == <<"s">>

EntryFull == Obj(<<Prop(KVersion, Str(V100)), Prop(KSource, Str(SrcS))>>)

EntryLeaves ==
    { Obj(<<>>),
      EntryFull,
      Obj(<<Prop(KVersion, Str(V100))>>),
      Obj(<<Prop(KSource, Str(SrcS))>>),
      Obj(<<Prop(KVersion, Str(<<>>)), Prop(KSource, Str(SrcS))>>),
      Obj(<<Prop(KVersion, Num(1)), Prop(KSource, Str(SrcS))>>),
      Obj(<<Prop(KVersion, Str(V100)), Prop(KSource, Str(<<>>))>>),
      Str(SrcS) }

\* Nested tables, as toml.parse gives for [extensions.<id>] sections.
EntryTables ==
    { Obj(<<Prop(k, e)>>) : k \in {IdBase16, IdBad}, e \in {EntryFull, Obj(<<>>), Str(SrcS)} }

RegistryValues == EntryLeaves \cup EntryTables

\* The sequences of n distinct keys of K: the iteration orders of an object.
DistinctKeys(K, n) ==
    {q \in [1..n -> K] : \A a, b \in 1..n : a # b => q[a] # q[b]}

ObjectOf(ks, vs) ==
    Obj([j \in 1..Len(ks) |-> Prop(ks[j], vs[j])])

InitRegistry ==
    /\ \/ \E n \in 0..MaxIds :
            \E ks \in DistinctKeys(RegistryKeys, n), vs \in [1..n -> RegistryValues] :
                extensionsToml = ObjectOf(ks, vs)
       \/ extensionsToml = Undefined
    /\ tomlResult = Pending
    /\ ManifestIdle
    /\ GitmodulesIdle
    /\ CliIdle

\* A call validateExtensionsToml(extensionsToml).
ValidateRegistry ==
    /\ tomlResult = Pending
    /\ tomlResult' = validateExtensionsToml(extensionsToml)
    /\ UNCHANGED <<extensionsToml, manVars, gmVars, cliVars>>

NextRegistry == ValidateRegistry

SpecRegistry == InitRegistry /\ [][NextRegistry]_vars

(***************************************************************************)
(* Claims about validateExtensionsToml.                                    *)
(***************************************************************************)
OnlyLowerDigitHyphen(s) ==
    Len(s) > 0 /\ \A j \in 1..Len(s) : s[j] \in Lower \cup Digit \cup {"-"}

HasUpperOrUnderscore(s) ==
    \E j \in 1..Len(s) : s[j] \in Upper \cup {"_"}

NonEmptyString(v) ==
    v.t = "string" /\ Len(v.s) > 0

\* The value under a registry id key has a non-empty string version and source.
EntryComplete(e) ==
    /\ e.t = "object"
    /\ \E j \in 1..Len(e.props) : e.props[j].k = KVersion /\ NonEmptyString(e.props[j].v)
    /\ \E j \in 1..Len(e.props) : e.props[j].k = KSource /\ NonEmptyString(e.props[j].v)

RegistryChecked ==
    extensionsToml.t = "object" /\ tomlResult # Pending

AllEntriesComplete ==
    \A j \in 1..Len(extensionsToml.props) : EntryComplete(extensionsToml.props[j].v)

\* C1: validateExtensionsToml does not throw for a registry whose top-level
\* keys all match ^[a-z0-9-]+$ and whose entries all have a non-empty string
\* version and source.
C1_ValidRegistryDoesNotThrow ==
    (/\ RegistryChecked
     /\ \A j \in 1..Len(extensionsToml.props) : OnlyLowerDigitHyphen(extensionsToml.props[j].k)
     /\ AllEntriesComplete)
        => tomlResult.state = "returned"

RegistryKeysOf(registry) ==
    [j \in 1..Len(registry.props) |-> registry.props[j].k]

\* The first key, in iteration order, with an uppercase letter or underscore.
FirstUpperOrUnderscoreKey(keys) ==
    keys[CHOOSE j \in 1..Len(keys) :
            HasUpperOrUnderscore(keys[j]) /\ \A h \in 1..(j - 1) : ~HasUpperOrUnderscore(keys[h])]

\* The first key, in iteration order, that is not made of [a-z0-9-] only.
FirstKeyOutsidePattern(keys) ==
    keys[CHOOSE j \in 1..Len(keys) :
            ~OnlyLowerDigitHyphen(keys[j]) /\ \A h \in 1..(j - 1) : OnlyLowerDigitHyphen(keys[h])]

IdMessage ==
    "Extension IDs must only consist of lowercase letters, numbers, and hyphens ('-'): "

\* C2 as stated: a registry with a key containing an uppercase letter or an
\* underscore makes validateExtensionsToml throw, and the message names the
\* first such key in iteration order, whatever the other keys are.
C2_NamesFirstUpperOrUnderscoreKey ==
    (/\ RegistryChecked
     /\ \E j \in 1..Len(extensionsToml.props) : HasUpperOrUnderscore(extensionsToml.props[j].k))
        => /\ tomlResult.state = "threw"
           /\ tomlResult.text = IdMessage
           /\ tomlResult.id = FirstUpperOrUnderscoreKey(RegistryKeysOf(extensionsToml))

\* C2 amended: a registry with a key containing an uppercase letter or an
\* underscore makes validateExtensionsToml throw the id error, and the message
\* names the first key in iteration order that does not match ^[a-z0-9-]+$
\* (which need not be the first key with an uppercase letter or underscore).
C2_NamesFirstKeyFailingPattern ==
    (/\ RegistryChecked
     /\ \E j \in 1..Len(extensionsToml.props) : HasUpperOrUnderscore(extensionsToml.props[j].k))
        => /\ tomlResult.state = "threw"
           /\ tomlResult.text = IdMessage
           /\ tomlResult.id = FirstKeyOutsidePattern(RegistryKeysOf(extensionsToml))

\* A valid key first, then an uppercase key: the error names the second key.
C2_Witness ==
    /\ RegistryChecked
    /\ Len(extensionsToml.props) = 2
    /\ extensionsToml.props[1].k = IdBase16
    /\ extensionsToml.props[2].k = IdBad
    /\ tomlResult.state = "threw"
    /\ tomlResult.id = IdBad

\* C3: validateExtensionsToml throws whenever some entry (the value under a
\* registry id key) lacks a non-empty string version or source; it returns
\* normally only if every entry has both.
C3_IncompleteEntryThrows ==
    RegistryChecked =>
        /\ (~AllEntriesComplete => tomlResult.state = "threw")
        /\ (tomlResult.state = "returned" => AllEntriesComplete)

(***************************************************************************)
(* Inputs of the manifest validator: the parsed manifest.json.             *)
(***************************************************************************)
StrX == Str(<<"x">>)

ManifestNames ==
    {Undefined, StrX, Str(<<>>), Str(<<"M","y"," ","X">>), Num(5)}

ManifestVersions ==
    {Undefined, Str(V100), Str(<<"1",".","0">>), Str(<<"1",".","0",".","0","-","b",".","1">>),
     Str(<<"1",".","0",".","0","-">>), Num(1)}

ManifestDescriptions == {Undefined, StrX, Num(5)}

ManifestAuthors == {Undefined, Arr(<<StrX>>), StrX, Num(5)}

ManifestAuthor == {Undefined, StrX, Num(5)}

ManifestLicenses == {Undefined, StrX, Num(5)}

ManifestRepositories == {Undefined, StrX, Num(5)}

ManifestKeywords == {Undefined, Arr(<<StrX>>), Arr(<<StrX, Num(5)>>), StrX}

ManifestOf(n, v, d, as, a, l, r, k) ==
    Obj(<< Prop(KName, n), Prop(KVersion, v), Prop(KDescription, d), Prop(KAuthors, as),
           Prop(KAuthor, a), Prop(KLicense, l), Prop(KRepository, r), Prop(KKeywords, k) >>)

InitManifest ==
    /\ \/ \E n \in ManifestNames, v \in ManifestVersions, d \in ManifestDescriptions,
             as \in ManifestAuthors, a \in ManifestAuthor, l \in ManifestLicenses,
             r \in ManifestRepositories, k \in ManifestKeywords :
                manifest = ManifestOf(n, v, d, as, a, l, r, k)
       \/ manifest \in {Undefined, StrX}
    /\ manifestResult = Pending
    /\ RegistryIdle
    /\ GitmodulesIdle
    /\ CliIdle

\* A call validateManifest(manifest).
ValidateManifest ==
    /\ manifestResult = Pending
    /\ manifestResult' = validateManifest(manifest)
    /\ UNCHANGED <<regVars, manifest, gmVars, cliVars>>

NextManifest == ValidateManifest

SpecManifest == InitManifest /\ [][NextManifest]_vars

(***************************************************************************)
(* Claims about validateManifest.                                          *)
(***************************************************************************)
InErrors(msg) ==
    \E j \in 1..Len(manifestResult.errors) : manifestResult.errors[j] = msg

NotAString(v) == v.t # "string" \/ Len(v.s) = 0

ArrayOfStrings(v) ==
    v.t = "array" /\ \A j \in 1..Len(v.items) : v.items[j].t = "string"

\* The semantic-version shape ^\d+\.\d+\.\d+(-[A-Za-z0-9.-]+)?$, on the characters.
IsSemVer(s) ==
    \E a, b, c \in 1..Len(s) :
        /\ a + b + c + 2 <= Len(s)
        /\ \A j \in 1..a : s[j] \in Digit
        /\ s[a + 1] = "."
        /\ \A j \in (a + 2)..(a + b + 1) : s[j] \in Digit
        /\ s[a + b + 2] = "."
        /\ \A j \in (a + b + 3)..(a + b + c + 2) : s[j] \in Digit
        /\ \/ a + b + c + 2 = Len(s)
           \/ /\ a + b + c + 4 <= Len(s)
              /\ s[a + b + c + 3] = "-"
              /\ \A j \in (a + b + c + 4)..Len(s) :
                    s[j] \in Lower \cup Upper \cup Digit \cup {"-", "."}

ManifestField(k) == Get(manifest, k)

RuleNameRequired == NotAString(ManifestField(KName))

RuleVersionRequired == NotAString(ManifestField(KVersion))

RuleDescriptionRequired == NotAString(ManifestField(KDescription))

RuleNamePattern ==
    ~NotAString(ManifestField(KName)) /\ ~OnlyLowerDigitHyphen(ManifestField(KName).s)

RuleVersionFormat ==
    ~NotAString(ManifestField(KVersion)) /\ ~IsSemVer(ManifestField(KVersion).s)

RuleAuthorsType ==
    ManifestField(KAuthors) # Undefined /\ ~ArrayOfStrings(ManifestField(KAuthors))

RuleLicenseType ==
    ManifestField(KLicense) # Undefined /\ ManifestField(KLicense).t # "string"

RuleRepositoryType ==
    ManifestField(KRepository) # Undefined /\ ManifestField(KRepository).t # "string"

RuleKeywordsType ==
    ManifestField(KKeywords) # Undefined /\ ~ArrayOfStrings(ManifestField(KKeywords))

\* C9: validateManifest returns a result for every manifest object and reports
\* every violated rule: each of name/version/description missing or not a
\* string, name outside the id pattern, version outside the semantic-version
\* shape, and authors/license/repository/keywords of the wrong type has an
\* entry in errors; isValid is true exactly when no rule is violated.
C9_ManifestReportsEveryRule ==
    (manifest.t = "object" /\ manifestResult # Pending) =>
        /\ RuleNameRequired => InErrors("Missing or invalid required field: name")
        /\ RuleVersionRequired => InErrors("Missing or invalid required field: version")
        /\ RuleDescriptionRequired => InErrors("Missing or invalid required field: description")
        /\ RuleNamePattern =>
            InErrors("Manifest name must contain only lowercase letters, numbers, and hyphens")
        /\ RuleVersionFormat =>
            InErrors("Version must follow semantic versioning format (e.g., 1.0.0 or 1.0.0-beta.1)")
        /\ RuleAuthorsType => Len(manifestResult.errors) > 0
        /\ RuleLicenseType => InErrors("License must be a string")
        /\ RuleRepositoryType => InErrors("Repository must be a string")
        /\ RuleKeywordsType => InErrors("Keywords must be an array of strings")
        /\ manifestResult.isValid <=>
            ~(\/ RuleNameRequired \/ RuleVersionRequired \/ RuleDescriptionRequired
              \/ RuleNamePattern \/ RuleVersionFormat \/ RuleAuthorsType
              \/ RuleLicenseType \/ RuleRepositoryType \/ RuleKeywordsType)

(***************************************************************************)
(* Inputs of the gitmodules validator: texts of at most MaxLines lines.    *)
(***************************************************************************)
LineBlank == <<>>

LineHeaderA == <<"[","s","u","b","m","o","d","u","l","e"," ","\"","a","\"","]">>

LineHeaderB == <<"[","s","u","b","m","o","d","u","l","e"," ","\"","b","\"","]">>

LinePath == <<" "," ","p","a","t","h"," ","="," ","p">>

LineUrlHttps == <<" "," ","u","r","l"," ","="," ","h","t","t","p","s",":","/","/","h">>

LineUrlGit == <<" "," ","u","r","l"," ","="," ","g","i","t","@","h",":","x">>

LineUrlFtp == <<"u","r","l","=","f","t","p",":","/","/","h">>

LineComment == <<"#"," ","c">>

LineCore == <<"[","c","o","r","e","]">>

LineJunk == <<"j","u","n","k">>

RawLines ==
    { LineBlank, LineHeaderA, LineHeaderB, LinePath, LineUrlHttps, LineUrlGit, LineUrlFtp,
      LineComment, LineCore, LineJunk }

\* Array.prototype.join("\n") of the raw lines.
JoinLines(ls) == JoinStrings(ls, <<"\n">>)

InitGitmodules ==
    /\ \/ \E n \in 1..MaxLines : \E ls \in [1..n -> RawLines] : gitmodules = Str(JoinLines(ls))
       \/ gitmodules = Undefined
    /\ gmPc = "start"
    /\ lines = <<>>
    /\ i = 0
    /\ currentSubmodule = Null
    /\ submodules = <<>>
    /\ errors = <<>>
    /\ RegistryIdle
    /\ ManifestIdle
    /\ CliIdle

\* validateGitmodules up to the loop: the typeof check, then split, trim, filter.
GmStart ==
    /\ gmPc = "start"
    /\ IF TypeOf(gitmodules) # "string"
       THEN /\ errors' = <<LineError("Gitmodules must be a string", 0, <<>>)>>
            /\ gmPc' = "returned"
            /\ UNCHANGED lines
       ELSE /\ lines' = TrimmedNonEmptyLines(gitmodules.s)
            /\ gmPc' = "scan"
            /\ UNCHANGED errors
    /\ UNCHANGED <<gitmodules, i, currentSubmodule, submodules, regVars, manVars, cliVars>>

\* One iteration of for (let i = 0; i < lines.length; i++).
GmScanLine ==
    /\ gmPc = "scan"
    /\ i < Len(lines)
    /\ LET st == ScanLine([currentSubmodule |-> currentSubmodule, submodules |-> submodules,
                           errors |-> errors], lines[i + 1], i)
       IN  /\ currentSubmodule' = st.currentSubmodule
           /\ submodules' = st.submodules
           /\ errors' = st.errors
    /\ i' = i + 1
    /\ UNCHANGED <<gitmodules, gmPc, lines, regVars, manVars, cliVars>>

\* The loop ends; the last submodule is added.
GmFlush ==
    /\ gmPc = "scan"
    /\ i >= Len(lines)
    /\ submodules' = FlushLast(currentSubmodule, submodules)
    /\ gmPc' = "validate"
    /\ UNCHANGED <<gitmodules, lines, i, currentSubmodule, errors, regVars, manVars, cliVars>>

\* The loop over the submodules, and the return.
GmValidate ==
    /\ gmPc = "validate"
    /\ errors' = ValidateSubmodules(submodules, errors)
    /\ gmPc' = "returned"
    /\ UNCHANGED <<gitmodules, lines, i, currentSubmodule, submodules, regVars, manVars, cliVars>>

NextGitmodules == GmStart \/ GmScanLine \/ GmFlush \/ GmValidate

SpecGitmodules == InitGitmodules /\ [][NextGitmodules]_vars

\* What validateGitmodules returns, once it has.
gmResult == GitmodulesResult(errors, submodules)

(***************************************************************************)
(* Claims about validateGitmodules.                                        *)
(***************************************************************************)
GmReturned == gmPc = "returned" /\ gitmodules.t = "string"

HttpsScheme == <<"h","t","t","p","s",":","/","/">>

\* Some error of the result names the submodule.
ErrorNames(name) ==
    \E j \in 1..Len(gmResult.errors) :
        /\ gmResult.errors[j].text \in
              {"Submodule missing path property", "Submodule missing url property",
               "Submodule has invalid URL format"}
        /\ gmResult.errors[j].name = name

\* C6: validateGitmodules fails for every input with a submodule section whose
\* url does not use the https:// scheme (such as git@github.com:me/x.git), and
\* the reported error identifies that submodule by name.
C6_NonHttpsUrlFails ==
    GmReturned =>
        \A j \in 1..Len(gmResult.submodules) :
            (/\ gmResult.submodules[j].url # Null
             /\ ~StartsWith(gmResult.submodules[j].url.s, HttpsScheme))
                => (~gmResult.isValid /\ ErrorNames(gmResult.submodules[j].name))

RawLinesOf(text) == SplitLines(text)

IsBlankLine(l) == \A j \in 1..Len(l) : l[j] \in Whitespace

\* The first non-whitespace characters of l are those of p.
BeginsWith(l, p) ==
    \E from \in 1..Len(l) :
        /\ \A j \in 1..(from - 1) : l[j] \in Whitespace
        /\ from + Len(p) - 1 <= Len(l)
        /\ \A j \in 1..Len(p) : l[from + j - 1] = p[j]

IsHeaderLine(l) ==
    \E from, to \in 1..Len(l) :
        /\ \A j \in 1..(from - 1) : l[j] \in Whitespace
        /\ \A j \in (to + 1)..Len(l) : l[j] \in Whitespace
        /\ to - from + 1 > Len(SubmoduleHeaderPrefix) + Len(SubmoduleHeaderSuffix)
        /\ SubSeq(l, from, from + Len(SubmoduleHeaderPrefix) - 1) = SubmoduleHeaderPrefix
        /\ SubSeq(l, to - Len(SubmoduleHeaderSuffix) + 1, to) = SubmoduleHeaderSuffix

\* A line that is not blank, not a comment, not a [submodule "name"] header and
\* not a path= / url= assignment.
IsOffendingLine(l) ==
    /\ ~IsBlankLine(l)
    /\ ~BeginsWith(l, <<"#">>)
    /\ ~IsHeaderLine(l)
    /\ ~BeginsWith(l, <<"p","a","t","h">>)
    /\ ~BeginsWith(l, <<"u","r","l">>)

\* C7: validateGitmodules reports an error carrying the 1-based line number in
\* the input text for every line that is not blank, not a comment, not a
\* [submodule "name"] header and not a path= / url= assignment, also before the
\* first header and below blank lines.
C7_OffendingLineReportedWithItsNumber ==
    GmReturned =>
        \A r \in 1..Len(RawLinesOf(gitmodules.s)) :
            IsOffendingLine(RawLinesOf(gitmodules.s)[r]) =>
                \E j \in 1..Len(gmResult.errors) :
                    /\ gmResult.errors[j].text \in
                          {"Invalid section header at line", "Invalid property at line"}
                    /\ gmResult.errors[j].lineNumber = r

MissingErrorFor(text, name) ==
    \E j \in 1..Len(gmResult.errors) :
        gmResult.errors[j].text = text /\ gmResult.errors[j].name = name

KSubmodule == <<"s","u","b","m","o","d","u","l","e">>

V110 == <<"1",".","1",".","0">>

SubmodulePath == <<"e","x","t","/","x">>

EntryV100 == Obj(<<Prop(KVersion, Str(V100)), Prop(KSubmodule, Str(SubmodulePath))>>)

EntryV110 == Obj(<<Prop(KVersion, Str(V110)), Prop(KSubmodule, Str(SubmodulePath))>>)

EntryNoSubmodule == Obj(<<Prop(KVersion, Str(V100))>>)

EntryNoVersion == Obj(<<Prop(KSubmodule, Str(SubmodulePath))>>)

\* The [extensions.<id>] table validateExtensionsToml asks for.
TableValid == Obj(<<Prop(IdBase16, EntryFull)>>)

CliKeys == {IdBase16, IdMyX, KExtensions}

CliValues == {EntryV100, EntryV110, EntryNoSubmodule, EntryNoVersion, TableValid}

\* What git show origin/main:extensions.toml may parse to.
MainRegistries ==
    { Obj(<<>>),
      Obj(<<Prop(IdBase16, EntryV100)>>),
      Obj(<<Prop(IdBase16, EntryV100), Prop(IdMyX, EntryV100)>>),
      Obj(<<Prop(IdBase16, EntryNoVersion)>>),
      Obj(<<Prop(KExtensions, TableValid)>>),
      Obj(<<Prop(KExtensions, TableValid), Prop(IdBase16, EntryV100)>>) }

Slash == <<"/">>

FileName == <<"a",".","g","z">>

\* Keys already in the blob store before the run.
StoredKeys ==
    { IdBase16 \o Slash \o V100 \o Slash \o FileName,
      IdBase16 \o Slash \o V110 \o Slash \o FileName,
      IdMyX \o Slash \o V100 \o Slash \o FileName }

Environments ==
    [SHOULD_PUBLISH : {"true", "unset"}, S3_KEYS : BOOLEAN, S3_BUCKET : BOOLEAN]

shouldPublish == env.SHOULD_PUBLISH = "true"

(***************************************************************************)
(* cli.ts: the selection step of main, and the two functions called alone. *)
(***************************************************************************)
\* await getPublishedVersionsByExtensionId(), the first line of
\* unpublishedExtensionIds.
FetchPublished ==
    /\ pc = "select"
    /\ shouldPublish
    /\ publishedExtensionVersions' = getPublishedVersionsByExtensionId(env, bucket)
    /\ pc' = "indexed"
    /\ UNCHANGED <<regVars, manVars, gmVars, env, arg, selectedExtensionId, mainExtensionsToml,
                   bucket, extensionIds, loopIndex, packaged, sortedFiles, exitCode>>

\* The rest of unpublishedExtensionIds.
SelectUnpublished ==
    /\ pc = "indexed"
    /\ extensionIds' = unpublishedExtensionIds(extensionsToml, publishedExtensionVersions)
    /\ pc' = "loop"
    /\ UNCHANGED <<regVars, manVars, gmVars, env, arg, selectedExtensionId, mainExtensionsToml,
                   bucket, publishedExtensionVersions, loopIndex, packaged, sortedFiles, exitCode>>

\* changedExtensionIds: git show origin/main:extensions.toml, parsed, then the loop.
SelectChanged ==
    /\ pc = "select"
    /\ ~shouldPublish
    /\ \E main \in MainRegistries :
        /\ mainExtensionsToml' = main
        /\ extensionIds' = changedExtensionIds(extensionsToml, main)
    /\ pc' = "loop"
    /\ UNCHANGED <<regVars, manVars, gmVars, env, arg, selectedExtensionId, bucket,
                   publishedExtensionVersions, loopIndex, packaged, sortedFiles, exitCode>>

\* The functions called on any parsed registry.
InitSelect ==
    /\ \E k \in 0..MaxIds :
        \E ks \in DistinctKeys(CliKeys, k), vs \in [1..k -> CliValues] :
            extensionsToml = ObjectOf(ks, vs)
    /\ tomlResult = Pending
    /\ ManifestIdle
    /\ GitmodulesIdle
    /\ pc = "select"
    /\ env \in Environments
    /\ arg = Undefined
    /\ selectedExtensionId = Undefined
    /\ mainExtensionsToml = Undefined
    /\ bucket \in SUBSET StoredKeys
    /\ publishedExtensionVersions = Pending
    /\ extensionIds = <<>>
    /\ loopIndex = 0
    /\ packaged = <<>>
    /\ sortedFiles = {}
    /\ exitCode = -1

NextSelect == FetchPublished \/ SelectUnpublished \/ SelectChanged

SpecSelect == InitSelect /\ [][NextSelect]_vars

(***************************************************************************)
(* Claims about the selection engine.                                      *)
(***************************************************************************)
RegistryIds == ObjectKeys(extensionsToml)

\* The position of id in the registry's iteration order.
RegistryPosition(id) ==
    CHOOSE j \in 1..Len(RegistryIds) : RegistryIds[j] = id

InSelection(id) ==
    \E j \in 1..Len(extensionIds) : extensionIds[j] = id

\* Registry order, no duplicates.
SelectionInRegistryOrder ==
    /\ \A j \in 1..Len(extensionIds) : \E h \in 1..Len(RegistryIds) : RegistryIds[h] = extensionIds[j]
    /\ \A a, b \in 1..Len(extensionIds) :
        a < b => RegistryPosition(extensionIds[a]) < RegistryPosition(extensionIds[b])

RegistryVersion(id) ==
    LET e == extensionsToml.props[RegistryPosition(id)].v
    IN  IF e.t = "object" /\ \E j \in 1..Len(e.props) : e.props[j].k = KVersion
        THEN e.props[CHOOSE j \in 1..Len(e.props) : e.props[j].k = KVersion].v
        ELSE Undefined

\* The index holds the id with the registry's current version of it.
AlreadyPublished(id) ==
    /\ id \in DOMAIN publishedExtensionVersions
    /\ RegistryVersion(id).t = "string"
    /\ RegistryVersion(id).s \in publishedExtensionVersions[id]

UnpublishedDone ==
    shouldPublish /\ pc = "loop" /\ loopIndex = 0

\* C4: unpublishedExtensionIds returns, in registry iteration order and
\* without duplicates, exactly the ids whose current version is not in the
\* published index's version set for that id (ids absent from the index
\* included); an empty registry yields an empty list.
C4_UnpublishedIsVersionDifference ==
    UnpublishedDone =>
        /\ SelectionInRegistryOrder
        /\ \A j \in 1..Len(RegistryIds) :
            InSelection(RegistryIds[j]) <=> ~AlreadyPublished(RegistryIds[j])
        /\ (RegistryIds = <<>> => extensionIds = <<>>)

\* One id is published with its current version, the other has a version the
\* index does not hold for it: only the second is returned.
C4_Witness ==
    /\ UnpublishedDone
    /\ RegistryIds = <<IdBase16, IdMyX>>
    /\ AlreadyPublished(IdBase16)
    /\ RegistryVersion(IdMyX) = Str(V100)
    /\ extensionIds = <<IdMyX>>

ChangedDone ==
    ~shouldPublish /\ pc = "loop" /\ loopIndex = 0

MainHas(id) ==
    \E j \in 1..Len(mainExtensionsToml.props) : mainExtensionsToml.props[j].k = id

MainVersion(id) ==
    LET e == mainExtensionsToml.props[CHOOSE j \in 1..Len(mainExtensionsToml.props) :
                                            mainExtensionsToml.props[j].k = id].v
    IN  IF e.t = "object" /\ \E j \in 1..Len(e.props) : e.props[j].k = KVersion
        THEN e.props[CHOOSE j \in 1..Len(e.props) : e.props[j].k = KVersion].v
        ELSE Undefined

\* C5: changedExtensionIds returns, in registry iteration order, exactly the
\* ids of the current registry whose version differs from the reference
\* registry's version for that id or that are absent from the reference;
\* ids only in the reference are never returned, and an empty current
\* registry yields an empty list.
C5_ChangedIsVersionDiffOrAdded ==
    ChangedDone =>
        /\ SelectionInRegistryOrder
        /\ \A j \in 1..Len(RegistryIds) :
            InSelection(RegistryIds[j]) <=>
                \/ ~MainHas(RegistryIds[j])
                \/ MainVersion(RegistryIds[j]) # RegistryVersion(RegistryIds[j])
        /\ (RegistryIds = <<>> => extensionIds = <<>>)

(***************************************************************************)
(* cli.ts: main.                                                           *)
(***************************************************************************)
ArgHelp == <<"-","-","h","e","l","p">>

ArgH == <<"-","h">>

ArgAll == <<"-","-","a","l","l">>

Args == {Undefined, Str(ArgHelp), Str(ArgAll), Str(IdBase16), Str(IdMyX)}

\* .gitmodules contents main may read.
GitmodulesFiles ==
    { JoinLines(<<LineBlank, LineHeaderA, LinePath, LineUrlHttps>>),
      JoinLines(<<LineHeaderA, LinePath, LineUrlGit>>),
      JoinLines(<<LineHeaderA, LinePath>>) }

OutputFiles == {FileName, <<"m",".","j">>}

EXTENSIONS_PREFIX == <<"e","x","t","e","n","s","i","o","n","s">>

\* `${EXTENSIONS_PREFIX}/${extensionId}/${extensionVersion}/${filename}`
UploadKey(extensionId, extensionVersion, filename) ==
    EXTENSIONS_PREFIX \o Slash \o extensionId \o Slash \o StringOf(extensionVersion)
        \o Slash \o filename

Exit(code) ==
    /\ pc' = "exited"
    /\ exitCode' = code

InitCli ==
    /\ RegistryIdle
    /\ ManifestIdle
    /\ GitmodulesIdle
    /\ pc = "start"
    /\ env \in Environments
    /\ arg \in Args
    /\ selectedExtensionId = Undefined
    /\ mainExtensionsToml = Undefined
    /\ bucket \in SUBSET StoredKeys
    /\ publishedExtensionVersions = Pending
    /\ extensionIds = <<>>
    /\ loopIndex = 0
    /\ packaged = <<>>
    /\ sortedFiles = {}
    /\ exitCode = -1

\* The argument handling before main.
ParseArgs ==
    /\ pc = "start"
    /\ IF ~Truthy(arg)
       THEN Exit(1) /\ UNCHANGED selectedExtensionId
       ELSE IF arg.s = ArgHelp \/ arg.s = ArgH
       THEN Exit(0) /\ UNCHANGED selectedExtensionId
       ELSE /\ selectedExtensionId' = IF arg.s = ArgAll THEN Undefined ELSE arg
            /\ pc' = "read"
            /\ UNCHANGED exitCode
    /\ UNCHANGED <<regVars, manVars, gmVars, env, arg, mainExtensionsToml, bucket,
                   publishedExtensionVersions, extensionIds, loopIndex, packaged, sortedFiles>>

\* readTomlFile("extensions.toml"): the parsed file, or a throw that main's
\* catch turns into exit(1).
ReadToml ==
    /\ pc = "read"
    /\ \/ /\ \E k \in 0..MaxIds :
                \E ks \in DistinctKeys(CliKeys, k), vs \in [1..k -> CliValues] :
                    extensionsToml' = ObjectOf(ks, vs)
          /\ pc' = "validate"
          /\ UNCHANGED exitCode
       \/ Exit(1) /\ UNCHANGED extensionsToml
    /\ UNCHANGED <<tomlResult, manVars, gmVars, env, arg, selectedExtensionId, mainExtensionsToml,
                   bucket, publishedExtensionVersions, extensionIds, loopIndex, packaged,
                   sortedFiles>>

\* validateExtensionsToml(extensionsToml): a throw ends the run with exit(1).
ValidateToml ==
    /\ pc = "validate"
    /\ tomlResult' = validateExtensionsToml(extensionsToml)
    /\ IF validateExtensionsToml(extensionsToml).state = "threw"
       THEN Exit(1)
       ELSE pc' = "gitmodules" /\ UNCHANGED exitCode
    /\ UNCHANGED <<extensionsToml, manVars, gmVars, env, arg, selectedExtensionId,
                   mainExtensionsToml, bucket, publishedExtensionVersions, extensionIds,
                   loopIndex, packaged, sortedFiles>>

\* fs.readFile(".gitmodules") and validateGitmodules(gitModulesContent), whose
\* result main does not look at; then readGitmodules.
ReadGitmodules ==
    /\ pc = "gitmodules"
    /\ \/ /\ \E text \in GitmodulesFiles : gitmodules' = Str(text)
          /\ pc' = "sort"
          /\ UNCHANGED exitCode
       \/ Exit(1) /\ UNCHANGED gitmodules
    /\ UNCHANGED <<regVars, manVars, gmPc, lines, i, currentSubmodule, submodules, errors,
                   env, arg, selectedExtensionId, mainExtensionsToml, bucket,
                   publishedExtensionVersions, extensionIds, loopIndex, packaged, sortedFiles>>

\* sortExtensionsToml("extensions.toml") goes through the registry file.
SortExtensionsToml ==
    /\ pc = "sort"
    /\ "extensions.toml" \notin sortedFiles
    /\ sortedFiles' = sortedFiles \cup {"extensions.toml"}
    /\ UNCHANGED <<regVars, manVars, gmVars, pc, env, arg, selectedExtensionId,
                   mainExtensionsToml, bucket, publishedExtensionVersions, extensionIds,
                   loopIndex, packaged, exitCode>>

\* sortGitmodules(".gitmodules") goes through .gitmodules, or throws.
SortGitmodules ==
    /\ pc = "sort"
    /\ "extensions.toml" \in sortedFiles
    /\ \/ /\ sortedFiles' = sortedFiles \cup {".gitmodules"}
          /\ pc' = "select"
          /\ UNCHANGED exitCode
       \/ Exit(1) /\ UNCHANGED sortedFiles
    /\ UNCHANGED <<regVars, manVars, gmVars, env, arg, selectedExtensionId,
                   mainExtensionsToml, bucket, publishedExtensionVersions, extensionIds,
                   loopIndex, packaged>>

\* The id of this iteration of for (const extensionId of extensionIds).
CurrentId == extensionIds[loopIndex + 1]

\* if (selectedExtensionId && extensionId !== selectedExtensionId) continue
LoopSkip ==
    /\ pc = "loop"
    /\ loopIndex < Len(extensionIds)
    /\ Truthy(selectedExtensionId) /\ CurrentId # selectedExtensionId.s
    /\ loopIndex' = loopIndex + 1
    /\ UNCHANGED <<regVars, manVars, gmVars, pc, env, arg, selectedExtensionId,
                   mainExtensionsToml, bucket, publishedExtensionVersions, extensionIds,
                   packaged, sortedFiles, exitCode>>

\* packageExtension(extensionId, extensionPath, version, true, s3Options):
\* it throws (main exits with 1), or it returns after uploading the output
\* files when there is an S3 client.
PackageExtension(extensionId, extensionVersion) ==
    /\ packaged' = Append(packaged, extensionId)
    /\ \/ /\ bucket' = IF env.S3_KEYS
                       THEN bucket \cup {UploadKey(extensionId, extensionVersion, f) : f \in OutputFiles}
                       ELSE bucket
          /\ loopIndex' = loopIndex + 1
          /\ UNCHANGED <<pc, exitCode>>
       \/ /\ Exit(1)
          /\ UNCHANGED <<bucket, loopIndex>>

\* The rest of the loop body for an id that is not skipped.
LoopBody ==
    /\ pc = "loop"
    /\ loopIndex < Len(extensionIds)
    /\ ~(Truthy(selectedExtensionId) /\ CurrentId # selectedExtensionId.s)
    /\ LET extensionInfo == Get(extensionsToml, CurrentId)
       IN  IF ~Truthy(extensionInfo) \/ ~Truthy(Get(extensionInfo, KSubmodule))
           THEN Exit(1) /\ UNCHANGED <<bucket, loopIndex, packaged>>
           ELSE IF shouldPublish
           THEN PackageExtension(CurrentId, Get(extensionInfo, KVersion))
           ELSE /\ loopIndex' = loopIndex + 1
                /\ UNCHANGED <<pc, exitCode, bucket, packaged>>
    /\ UNCHANGED <<regVars, manVars, gmVars, env, arg, selectedExtensionId,
                   mainExtensionsToml, publishedExtensionVersions, extensionIds, sortedFiles>>

\* The loop is over: the build directory is removed and main returns.
Finish ==
    /\ pc = "loop"
    /\ loopIndex >= Len(extensionIds)
    /\ pc' = "done"
    /\ UNCHANGED <<regVars, manVars, gmVars, env, arg, selectedExtensionId, mainExtensionsToml,
                   bucket, publishedExtensionVersions, extensionIds, loopIndex, packaged,
                   sortedFiles, exitCode>>

Next ==
    \/ ParseArgs
    \/ ReadToml
    \/ ValidateToml
    \/ ReadGitmodules
    \/ SortExtensionsToml
    \/ SortGitmodules
    \/ FetchPublished
    \/ SelectUnpublished
    \/ SelectChanged
    \/ LoopSkip
    \/ LoopBody
    \/ Finish

Init == InitCli

Spec == Init /\ [][Next]_vars

(***************************************************************************)
(* Claims about main.                                                      *)
(***************************************************************************)
WasPackaged(id) ==
    \E j \in 1..Len(packaged) : packaged[j] = id

\* The ids added or updated relative to origin/main: absent there, or there
\* with another version.
AddedOrUpdated(id) ==
    \/ ~MainHas(id)
    \/ MainVersion(id) # RegistryVersion(id)

\* C10: in a run where SHOULD_PUBLISH is not "true", every extension added or
\* updated relative to origin/main is packaged, restricted to the given
\* extension id when one is passed; when an id is given, no other extension
\* is ever packaged.
C10_ChangedExtensionsArePackaged ==
    /\ (pc = "done" /\ ~shouldPublish) =>
        \A j \in 1..Len(RegistryIds) :
            (/\ AddedOrUpdated(RegistryIds[j])
             /\ (selectedExtensionId = Undefined \/ selectedExtensionId.s = RegistryIds[j]))
                => WasPackaged(RegistryIds[j])
    /\ selectedExtensionId # Undefined =>
        \A j \in 1..Len(packaged) : packaged[j] = selectedExtensionId.s


\* The run has got past validation: a sorter has rewritten its file, or the
\* selection or the packaging loop has started.
PastValidation ==
    \/ sortedFiles # {}
    \/ pc \in {"select", "indexed", "loop", "done"}
    \/ packaged # <<>>

\* validateGitmodules reports no error for the .gitmodules main has read.
GitmodulesFileValid ==
    gitmodules.t = "string" /\ validateGitmodules(gitmodules).isValid

\* C11: the sort, selection and packaging steps are never reached in a run
\* where validateExtensionsToml threw or validateGitmodules reported errors:
\* whenever a sorter has rewritten a file, or the selection or the loop has
\* started, both validations found no violation.
C11_ValidationHaltsBeforeSort ==
    PastValidation =>
        /\ tomlResult = Returned
        /\ GitmodulesFileValid


\* A publish run with an S3 client and a bucket to list has come to its end:
\* every packageExtension call it made returned after its uploads.
PublishRunDone ==
    pc = "done" /\ shouldPublish /\ env.S3_KEYS /\ env.S3_BUCKET

\* The run uploaded files of id at its registry version, under keys of the
\* form <prefix>/<extensionId>/<version>/<filename>.
Uploaded(id) ==
    /\ \E j \in 1..Len(packaged) : packaged[j] = id
    /\ RegistryVersion(id).t = "string"
    /\ \E f \in OutputFiles : UploadKey(id, RegistryVersion(id), f) \in bucket

\* The published index a later run builds from the store's keys.
LaterIndex == getPublishedVersionsByExtensionId(env, bucket)

\* What a later publish-mode run over the unchanged registry selects.
LaterSelection == unpublishedExtensionIds(extensionsToml, LaterIndex)

\* C12: once a publish run has uploaded an extension's files under
\* <prefix>/<extensionId>/<version>/<filename>, the published index built from
\* the store's keys holds that version for that id, and a later publish-mode
\* run over the unchanged registry does not select that id.
C12_UploadedVersionIsIndexed ==
    PublishRunDone =>
        \A j \in 1..Len(RegistryIds) :
            Uploaded(RegistryIds[j]) =>
                /\ RegistryIds[j] \in DOMAIN LaterIndex
                /\ RegistryVersion(RegistryIds[j]).s \in LaterIndex[RegistryIds[j]]
                /\ \A h \in 1..Len(LaterSelection) : LaterSelection[h] # RegistryIds[j]


(***************************************************************************)
(* Claims about the sections validateGitmodules collects.                  *)
(***************************************************************************)
\* l without the whitespace at its two ends.
RECURSIVE Stripped(_)
Stripped(l) ==
    IF l = <<>> THEN l
    ELSE IF Head(l) \in Whitespace THEN Stripped(Tail(l))
    ELSE IF l[Len(l)] \in Whitespace THEN Stripped(SubSeq(l, 1, Len(l) - 1))
    ELSE l

\* l, without the whitespace around it, is [submodule "<name>"] with a
\* non-empty name.
IsSectionHeader(l) ==
    LET t == Stripped(l)
    IN  /\ Len(t) > Len(SubmoduleHeaderPrefix) + Len(SubmoduleHeaderSuffix)
        /\ SubSeq(t, 1, Len(SubmoduleHeaderPrefix)) = SubmoduleHeaderPrefix
        /\ SubSeq(t, Len(t) - Len(SubmoduleHeaderSuffix) + 1, Len(t)) = SubmoduleHeaderSuffix

\* The name between [submodule " and "] of a header line.
HeaderNameOf(l) ==
    LET t == Stripped(l)
    IN  SubSeq(t, Len(SubmoduleHeaderPrefix) + 1, Len(t) - Len(SubmoduleHeaderSuffix))

\* l is "<key> = <value>", with optional whitespace around "=" and a value.
IsAssignmentOf(l, key) ==
    LET t == Stripped(l)
        after == Stripped(SubSeq(t, Len(key) + 1, Len(t)))
    IN  /\ Len(t) > Len(key)
        /\ SubSeq(t, 1, Len(key)) = key
        /\ Len(after) >= 2
        /\ after[1] = "="

\* The value of an assignment line.
AssignedValueOf(l, key) ==
    LET t == Stripped(l)
        after == Stripped(SubSeq(t, Len(key) + 1, Len(t)))
    IN  Stripped(SubSeq(after, 2, Len(after)))

\* The positions of the header lines of ls, in order.
HeaderPositions(ls) ==
    SelectSeq([p \in 1..Len(ls) |-> p], LAMBDA p : IsSectionHeader(ls[p]))

HeaderCount(ls) == Len(HeaderPositions(ls))

\* The last value assigned to key on the lines from..to of ls, null when
\* there is none.
RECURSIVE LastAssigned(_, _, _, _)
LastAssigned(ls, from, to, key) ==
    IF to < from THEN Null
    ELSE IF IsAssignmentOf(ls[to], key) THEN Str(AssignedValueOf(ls[to], key))
    ELSE LastAssigned(ls, from, to - 1, key)

\* secs has one section per header line of ls, in order of appearance, each
\* holding the last path and url assigned between its header and the next.
SectionsMatch(secs, ls) ==
    LET pos == HeaderPositions(ls)
        next == [k \in 1..Len(pos) |-> IF k < Len(pos) THEN pos[k + 1] ELSE Len(ls) + 1]
    IN  /\ Len(secs) = Len(pos)
        /\ \A k \in 1..Len(pos) :
            /\ secs[k].name = HeaderNameOf(ls[pos[k]])
            /\ secs[k].path = LastAssigned(ls, pos[k] + 1, next[k] - 1, <<"p","a","t","h">>)
            /\ secs[k].url = LastAssigned(ls, pos[k] + 1, next[k] - 1, <<"u","r","l">>)

\* The closed sections followed by the open one, if any.
SectionsSoFar ==
    IF currentSubmodule = Null THEN submodules ELSE Append(submodules, currentSubmodule)

\* C13: the parser is a two-state machine.  During the scan there is an open
\* section exactly when a header line has been read, and the closed sections
\* followed by the open one are one section per header line read so far, in
\* order, each with the last path/url assigned between its header and the
\* next header (null when none was).  After the scan the returned submodules
\* list is that for the whole input text, the section open at the end
\* included.
C13_SectionsFollowHeaders ==
    /\ gmPc = "scan" =>
        /\ (currentSubmodule = Null <=> HeaderCount(SubSeq(lines, 1, i)) = 0)
        /\ SectionsMatch(SectionsSoFar, SubSeq(lines, 1, i))
    /\ (gmPc \in {"validate", "returned"} /\ gitmodules.t = "string") =>
        SectionsMatch(submodules, RawLinesOf(gitmodules.s))

\* Two sections were returned: the first was assigned two urls and holds the
\* second, the second was still open, with nothing assigned, at the end.
C13_Witness ==
    /\ gmPc = "returned"
    /\ gitmodules = Str(JoinLines(<<LineHeaderA, LineUrlHttps, LineUrlGit, LineHeaderB>>))
    /\ Len(submodules) = 2
    /\ submodules[1].url = Str(Trim(UrlMatch(Trim(LineUrlGit)).group))
    /\ submodules[2].path = Null
    /\ submodules[2].url = Null

====
